---- MODULE Spec2Model ----
(***************************************************************************)
(* Request/response codec layer of the beacon state routes                 *)
(* (packages/api/src/beacon/routes/beacon/state.ts).                       *)
(*                                                                         *)
(* A request cycle is modelled as: a client calls one of the 11 operations *)
(* (writeReq builds the wire request), or a foreign client puts a raw wire *)
(* request on the wire; the server validates the wire request against the  *)
(* operation's schema and applies parseReq; the handler's result is        *)
(* wrapped in the response envelope, rendered to JSON and read back.       *)
(***************************************************************************)
EXTENDS Integers, Sequences, FiniteSets, TLC

(***************************************************************************)
(* Bounds of the model.                                                    *)
(***************************************************************************)
\* longest list of validator ids / statuses a call carries
MaxIds == 2

\* longest list a handler returns
MaxList == 2

\* results differ by a seed in 0..MaxSeed
MaxSeed == 3

(***************************************************************************)
(* Unsigned 64-bit integers.  TLC's integers are 32 bits wide, so a u64 is *)
(* four 16-bit limbs, least significant first.                             *)
(***************************************************************************)
LimbBase == 65536
NumLimbs == 4

IsU64(l) == Len(l) = NumLimbs /\ \A i \in 1..NumLimbs : l[i] \in 0..(LimbBase - 1)

\* a u64 from its four limbs, most significant first (as one writes a number)
U64(l3, l2, l1, l0) == <<l0, l1, l2, l3>>

\* a u64 below 2^31 from a TLC integer
Small(k) == <<k % LimbBase, k \div LimbBase, 0, 0>>

IsZero(l) == \A i \in 1..Len(l) : l[i] = 0

\* 2^64 - 1
MaxU64 == U64(LimbBase - 1, LimbBase - 1, LimbBase - 1, LimbBase - 1)

DigitChars == <<"0", "1", "2", "3", "4", "5", "6", "7", "8", "9">>

IsDigit(c) == \E i \in 1..10 : DigitChars[i] = c

DigitVal(c) == (CHOOSE i \in 1..10 : DigitChars[i] = c) - 1

\* long division of a u64 by ten: quotient limbs and remainder
RECURSIVE DivTen(_, _, _)
DivTen(l, i, rem) ==
    IF i = 0
    THEN [q |-> l, r |-> rem]
    ELSE LET cur == rem * LimbBase + l[i]
         IN  DivTen([l EXCEPT ![i] = cur \div 10], i - 1, cur % 10)

\* l * 10 + d over NumLimbs limbs; carry # 0 when the result does not fit
RECURSIVE MulTenAdd(_, _, _)
MulTenAdd(l, i, carry) ==
    IF i > Len(l)
    THEN [v |-> l, carry |-> carry]
    ELSE LET cur == l[i] * 10 + carry
         IN  MulTenAdd([l EXCEPT ![i] = cur % LimbBase], i + 1, cur \div LimbBase)

RECURSIVE DecDigits(_, _)
DecDigits(l, acc) ==
    IF IsZero(l)
    THEN acc
    ELSE LET dm == DivTen(l, Len(l), 0)
         IN  DecDigits(dm.q, DigitChars[dm.r + 1] \o acc)

\* canonical decimal rendering: no sign, no leading zero, "0" for zero
toDecimalString(n) == IF IsZero(n) THEN "0" ELSE DecDigits(n, "")

RECURSIVE ParseDigits(_, _, _)
ParseDigits(s, i, acc) ==
    IF i > Len(s)
    THEN [ok |-> TRUE, val |-> acc]
    ELSE LET c == SubSeq(s, i, i)
         IN  IF ~IsDigit(c)
             THEN [ok |-> FALSE, val |-> Small(0)]
             ELSE LET m == MulTenAdd(acc, 1, DigitVal(c))
                  IN  IF m.carry # 0
                      THEN [ok |-> FALSE, val |-> Small(0)]
                      ELSE ParseDigits(s, i + 1, m.v)

\* fromDecimalString without the leading-zero rule
fromDecimalString_lenient(s) ==
    IF Len(s) = 0
    THEN [ok |-> FALSE, val |-> Small(0)]
    ELSE ParseDigits(s, 1, Small(0))

\* the inverse of toDecimalString; ok = FALSE is the MalformedNumber condition:
\* a non-digit character, a leading zero other than "0", a value above 2^64 - 1
fromDecimalString(s) ==
    IF Len(s) = 0 \/ (Len(s) > 1 /\ SubSeq(s, 1, 1) = "0")
    THEN [ok |-> FALSE, val |-> Small(0)]
    ELSE ParseDigits(s, 1, Small(0))

toU64Str(n) == toDecimalString(n)

fromU64Str(s) == fromDecimalString(s)

(***************************************************************************)
(* JavaScript values.  Every value is a record of the same five fields so  *)
(* that any two values can be compared: t is the typeof tag, n the limbs   *)
(* of a number, s the text of a string, a the elements of an array and o   *)
(* the own properties of an object, a set of <<key, value>> pairs.  A key  *)
(* holding undefined ({id: undefined}) is a pair of o and differs from a   *)
(* missing key ({}), as it does under deep equality.                       *)
(***************************************************************************)
JsUndefined == [t |-> "undefined", n |-> <<>>, s |-> "", a |-> <<>>, o |-> {}]

JsNum(l) == [t |-> "number", n |-> l, s |-> "", a |-> <<>>, o |-> {}]

JsStr(str) == [t |-> "string", n |-> <<>>, s |-> str, a |-> <<>>, o |-> {}]

JsArr(elems) == [t |-> "array", n |-> <<>>, s |-> "", a |-> elems, o |-> {}]

JsObj(props) == [t |-> "object", n |-> <<>>, s |-> "", a |-> <<>>, o |-> props]

JsBool(b) == [t |-> "boolean", n |-> <<>>, s |-> IF b THEN "true" ELSE "false", a |-> <<>>, o |-> {}]

HasKey(v, k) == \E p \in v.o : p[1] = k

\* property read v.k (undefined for a missing key) and optional chaining v?.k
Get(v, k) == IF HasKey(v, k) THEN (CHOOSE p \in v.o : p[1] = k)[2] ELSE JsUndefined

\* the object without the keys that hold undefined (what JSON.stringify keeps)
DropUndefined(v) == IF v.t = "object" THEN JsObj({p \in v.o : p[2] # JsUndefined}) ELSE v

\* String(v) of a number or a string
JsString(v) == IF v.t = "number" THEN toDecimalString(v.n) ELSE v.s

startsWith(str, prefix) ==
    Len(str) >= Len(prefix) /\ SubSeq(str, 1, Len(prefix)) = prefix

\* a || b
JsOr(a, b) == IF a = JsUndefined THEN b ELSE a

(***************************************************************************)
(* Route table.                                                            *)
(***************************************************************************)
Operations ==
    {"getEpochCommittees", "getEpochSyncCommittees", "getStateFinalityCheckpoints",
     "getStateFork", "getStateRoot", "getStateRandao", "getStateValidator",
     "getStateValidators", "postStateValidators", "getStateValidatorBalances",
     "postStateValidatorBalances"}

Route(url, method) == [url |-> url, method |-> method]

\* routesData with the POST balances route registered as GET
routesData_postAsGet ==
    [getEpochCommittees |-> Route("/eth/v1/beacon/states/{state_id}/committees", "GET"),
     getEpochSyncCommittees |-> Route("/eth/v1/beacon/states/{state_id}/sync_committees", "GET"),
     getStateFinalityCheckpoints |-> Route("/eth/v1/beacon/states/{state_id}/finality_checkpoints", "GET"),
     getStateFork |-> Route("/eth/v1/beacon/states/{state_id}/fork", "GET"),
     getStateRoot |-> Route("/eth/v1/beacon/states/{state_id}/root", "GET"),
     getStateRandao |-> Route("/eth/v1/beacon/states/{state_id}/randao", "GET"),
     getStateValidator |-> Route("/eth/v1/beacon/states/{state_id}/validators/{validator_id}", "GET"),
     getStateValidators |-> Route("/eth/v1/beacon/states/{state_id}/validators", "GET"),
     postStateValidators |-> Route("/eth/v1/beacon/states/{state_id}/validators", "POST"),
     getStateValidatorBalances |-> Route("/eth/v1/beacon/states/{state_id}/validator_balances", "GET"),
     postStateValidatorBalances |-> Route("/eth/v1/beacon/states/{state_id}/validator_balances", "GET")]

routesData ==
    [getEpochCommittees |-> Route("/eth/v1/beacon/states/{state_id}/committees", "GET"),
     getEpochSyncCommittees |-> Route("/eth/v1/beacon/states/{state_id}/sync_committees", "GET"),
     getStateFinalityCheckpoints |-> Route("/eth/v1/beacon/states/{state_id}/finality_checkpoints", "GET"),
     getStateFork |-> Route("/eth/v1/beacon/states/{state_id}/fork", "GET"),
     getStateRoot |-> Route("/eth/v1/beacon/states/{state_id}/root", "GET"),
     getStateRandao |-> Route("/eth/v1/beacon/states/{state_id}/randao", "GET"),
     getStateValidator |-> Route("/eth/v1/beacon/states/{state_id}/validators/{validator_id}", "GET"),
     getStateValidators |-> Route("/eth/v1/beacon/states/{state_id}/validators", "GET"),
     postStateValidators |-> Route("/eth/v1/beacon/states/{state_id}/validators", "POST"),
     getStateValidatorBalances |-> Route("/eth/v1/beacon/states/{state_id}/validator_balances", "GET"),
     postStateValidatorBalances |-> Route("/eth/v1/beacon/states/{state_id}/validator_balances", "POST")]

\* the path segments of a URL template, split at "/"
RECURSIVE SplitPath(_, _, _, _)
SplitPath(url, i, cur, acc) ==
    IF i > Len(url)
    THEN (IF cur = "" THEN acc ELSE Append(acc, cur))
    ELSE LET c == SubSeq(url, i, i)
         IN  IF c = "/"
             THEN SplitPath(url, i + 1, "", IF cur = "" THEN acc ELSE Append(acc, cur))
             ELSE SplitPath(url, i + 1, cur \o c, acc)

Segments(url) == SplitPath(url, 1, "", <<>>)

\* a named path parameter: {name}
IsPlaceholder(seg) == startsWith(seg, "{") /\ SubSeq(seg, Len(seg), Len(seg)) = "}"

\* two templates collide when some resolved path fits both: same number of
\* segments and, at each place, equal literals or a placeholder on either side
SegmentsCollide(s1, s2) ==
    /\ Len(s1) = Len(s2)
    /\ \A i \in 1..Len(s1) :
          s1[i] = s2[i] \/ IsPlaceholder(s1[i]) \/ IsPlaceholder(s2[i])

(***************************************************************************)
(* Request schema vocabulary (the Schema descriptors): what the transport  *)
(* boundary accepts for one field.  Only StringRequired demands presence.  *)
(***************************************************************************)
SchemaAccepts(descriptor, v) ==
    CASE descriptor = "StringRequired" -> v.t = "string"
      [] descriptor = "Uint" -> v.t \in {"undefined", "number"}
      [] descriptor = "UintOrStringArray" ->
            \/ v.t = "undefined"
            \/ v.t = "array" /\ \A i \in 1..Len(v.a) : v.a[i].t \in {"number", "string"}
      [] descriptor = "StringArray" ->
            \/ v.t = "undefined"
            \/ v.t = "array" /\ \A i \in 1..Len(v.a) : v.a[i].t = "string"
      [] descriptor = "Object" -> v.t = "object"
      [] OTHER -> FALSE

\* a request schema: descriptors of the params and query fields, and of the body
ReqSchema(params, query, body) == [params |-> params, query |-> query, body |-> body]

NoFields == {}

NoBody == "none"

\* every described field of the part is acceptable
PartConforms(fields, part) ==
    \A f \in fields : SchemaAccepts(f[2], Get(part, f[1]))

Conforms(schema, req) ==
    /\ PartConforms(schema.params, Get(req, "params"))
    /\ PartConforms(schema.query, Get(req, "query"))
    /\ schema.body # NoBody => SchemaAccepts(schema.body, Get(req, "body"))

(***************************************************************************)
(* Request codecs.  writeReq takes the argument tuple (a missing trailing  *)
(* argument is undefined) and returns the wire request; parseReq returns   *)
(* [threw, args]: threw when fromU64Str raised MalformedNumber.            *)
(***************************************************************************)
Params(state_id) == JsObj({<<"state_id", state_id>>})

Returned(args) == [threw |-> FALSE, args |-> args]

Thrown == [threw |-> TRUE, args |-> <<>>]

\* IdToWire without the typeof test
IdToWire_alwaysU64Str(id) == JsStr(toU64Str(id.n))

\* (id) => (typeof id === "string" ? id : toU64Str(id))
IdToWire(id) == IF id.t = "string" THEN id ELSE JsStr(toU64Str(id.n))

\* ids?.map(IdToWire)
IdsToWire(ids) ==
    IF ids = JsUndefined
    THEN JsUndefined
    ELSE JsArr([i \in 1..Len(ids.a) |-> IdToWire(ids.a[i])])

\* IsPubkeyOnWire without the prefix test
IsPubkeyOnWire_anyString(id) == id.t = "string"

\* typeof id === "string" && id.startsWith("0x")
IsPubkeyOnWire(id) == id.t = "string" /\ startsWith(id.s, "0x")

\* (id) => (IsPubkeyOnWire(id) ? id : fromU64Str(id))
IdFromWire(id) ==
    IF IsPubkeyOnWire(id)
    THEN [threw |-> FALSE, val |-> id]
    ELSE LET r == fromU64Str(id.s)
         IN  [threw |-> ~r.ok, val |-> JsNum(r.val)]

\* ids?.map(IdFromWire): throws as soon as one element does
IdsFromWire(ids) ==
    IF ids = JsUndefined
    THEN [threw |-> FALSE, val |-> JsUndefined]
    ELSE IF \E i \in 1..Len(ids.a) : IdFromWire(ids.a[i]).threw
         THEN [threw |-> TRUE, val |-> JsUndefined]
         ELSE [threw |-> FALSE,
               val |-> JsArr([i \in 1..Len(ids.a) |-> IdFromWire(ids.a[i]).val])]

stateIdOnlyReq_writeReq(args) ==
    JsObj({<<"params", Params(JsStr(JsString(args[1])))>>})

\* stateIdOnlyReq.parseReq turning a decimal state_id back into a number
stateIdOnlyReq_parseReq_numeric(req) ==
    LET sid == Get(Get(req, "params"), "state_id")
    IN  IF fromDecimalString(sid.s).ok
        THEN Returned(<<JsNum(fromDecimalString(sid.s).val)>>)
        ELSE Returned(<<sid>>)

stateIdOnlyReq_parseReq(req) == Returned(<<Get(Get(req, "params"), "state_id")>>)

stateIdOnlyReq_schema ==
    ReqSchema({<<"state_id", "StringRequired">>}, NoFields, NoBody)

getEpochCommittees_writeReq(args) ==
    JsObj({<<"params", Params(args[1])>>, <<"query", JsOr(args[2], JsObj({}))>>})

getEpochCommittees_parseReq(req) ==
    Returned(<<Get(Get(req, "params"), "state_id"), Get(req, "query")>>)

getEpochCommittees_schema ==
    ReqSchema({<<"state_id", "StringRequired">>},
              {<<"slot", "Uint">>, <<"epoch", "Uint">>, <<"index", "Uint">>}, NoBody)

getEpochSyncCommittees_writeReq(args) ==
    JsObj({<<"params", Params(args[1])>>, <<"query", JsObj({<<"epoch", args[2]>>})>>})

getEpochSyncCommittees_parseReq(req) ==
    Returned(<<Get(Get(req, "params"), "state_id"), Get(Get(req, "query"), "epoch")>>)

getEpochSyncCommittees_schema ==
    ReqSchema({<<"state_id", "StringRequired">>}, {<<"epoch", "Uint">>}, NoBody)

getStateRandao_writeReq(args) ==
    JsObj({<<"params", Params(args[1])>>, <<"query", JsObj({<<"epoch", args[2]>>})>>})

getStateRandao_parseReq(req) ==
    Returned(<<Get(Get(req, "params"), "state_id"), Get(Get(req, "query"), "epoch")>>)

getStateRandao_schema ==
    ReqSchema({<<"state_id", "StringRequired">>}, {<<"epoch", "Uint">>}, NoBody)

getStateValidator_writeReq(args) ==
    JsObj({<<"params", JsObj({<<"state_id", args[1]>>, <<"validator_id", args[2]>>})>>})

getStateValidator_parseReq(req) ==
    Returned(<<Get(Get(req, "params"), "state_id"), Get(Get(req, "params"), "validator_id")>>)

getStateValidator_schema ==
    ReqSchema({<<"state_id", "StringRequired">>, <<"validator_id", "StringRequired">>},
              NoFields, NoBody)

getStateValidators_writeReq(args) ==
    JsObj({<<"params", Params(args[1])>>, <<"query", JsOr(args[2], JsObj({}))>>})

getStateValidators_parseReq(req) ==
    Returned(<<Get(Get(req, "params"), "state_id"), Get(req, "query")>>)

getStateValidators_schema ==
    ReqSchema({<<"state_id", "StringRequired">>},
              {<<"id", "UintOrStringArray">>, <<"status", "StringArray">>}, NoBody)

postStateValidators_writeReq(args) ==
    JsObj({<<"params", Params(args[1])>>,
           <<"body", JsObj({<<"ids", IdsToWire(Get(args[2], "id"))>>,
                            <<"statuses", Get(args[2], "status")>>})>>})

postStateValidators_parseReq(req) ==
    LET body == Get(req, "body")
        ids == IdsFromWire(Get(body, "ids"))
    IN  IF ids.threw
        THEN Thrown
        ELSE Returned(<<Get(Get(req, "params"), "state_id"),
                        JsObj({<<"id", ids.val>>, <<"status", Get(body, "statuses")>>})>>)

postStateValidators_schema ==
    ReqSchema({<<"state_id", "StringRequired">>}, NoFields, "Object")

getStateValidatorBalances_writeReq(args) ==
    JsObj({<<"params", Params(args[1])>>, <<"query", JsObj({<<"id", args[2]>>})>>})

getStateValidatorBalances_parseReq(req) ==
    Returned(<<Get(Get(req, "params"), "state_id"), Get(Get(req, "query"), "id")>>)

getStateValidatorBalances_schema ==
    ReqSchema({<<"state_id", "StringRequired">>}, {<<"id", "UintOrStringArray">>}, NoBody)

postStateValidatorBalances_writeReq(args) ==
    JsObj({<<"params", Params(args[1])>>,
           <<"body", JsOr(IdsToWire(args[2]), JsArr(<<>>))>>})

postStateValidatorBalances_parseReq(req) ==
    LET ids == IdsFromWire(Get(req, "body"))
    IN  IF ids.threw
        THEN Thrown
        ELSE Returned(<<Get(Get(req, "params"), "state_id"), ids.val>>)

postStateValidatorBalances_schema ==
    ReqSchema({<<"state_id", "StringRequired">>}, NoFields, "UintOrStringArray")

\* the object getReqSerializers returns: operation -> the serializer it holds
getReqSerializers ==
    [getEpochCommittees |-> "getEpochCommittees",
     getEpochSyncCommittees |-> "getEpochSyncCommittees",
     getStateFinalityCheckpoints |-> "stateIdOnlyReq",
     getStateFork |-> "stateIdOnlyReq",
     getStateRoot |-> "stateIdOnlyReq",
     getStateRandao |-> "getStateRandao",
     getStateValidator |-> "getStateValidator",
     getStateValidators |-> "getStateValidators",
     postStateValidators |-> "postStateValidators",
     getStateValidatorBalances |-> "getStateValidatorBalances",
     postStateValidatorBalances |-> "postStateValidatorBalances"]

writeReq(op, args) ==
    LET ser == getReqSerializers[op]
    IN  CASE ser = "stateIdOnlyReq" -> stateIdOnlyReq_writeReq(args)
          [] ser = "getEpochCommittees" -> getEpochCommittees_writeReq(args)
          [] ser = "getEpochSyncCommittees" -> getEpochSyncCommittees_writeReq(args)
          [] ser = "getStateRandao" -> getStateRandao_writeReq(args)
          [] ser = "getStateValidator" -> getStateValidator_writeReq(args)
          [] ser = "getStateValidators" -> getStateValidators_writeReq(args)
          [] ser = "postStateValidators" -> postStateValidators_writeReq(args)
          [] ser = "getStateValidatorBalances" -> getStateValidatorBalances_writeReq(args)
          [] ser = "postStateValidatorBalances" -> postStateValidatorBalances_writeReq(args)

parseReq(op, req) ==
    LET ser == getReqSerializers[op]
    IN  CASE ser = "stateIdOnlyReq" -> stateIdOnlyReq_parseReq(req)
          [] ser = "getEpochCommittees" -> getEpochCommittees_parseReq(req)
          [] ser = "getEpochSyncCommittees" -> getEpochSyncCommittees_parseReq(req)
          [] ser = "getStateRandao" -> getStateRandao_parseReq(req)
          [] ser = "getStateValidator" -> getStateValidator_parseReq(req)
          [] ser = "getStateValidators" -> getStateValidators_parseReq(req)
          [] ser = "postStateValidators" -> postStateValidators_parseReq(req)
          [] ser = "getStateValidatorBalances" -> getStateValidatorBalances_parseReq(req)
          [] ser = "postStateValidatorBalances" -> postStateValidatorBalances_parseReq(req)

schema(op) ==
    LET ser == getReqSerializers[op]
    IN  CASE ser = "stateIdOnlyReq" -> stateIdOnlyReq_schema
          [] ser = "getEpochCommittees" -> getEpochCommittees_schema
          [] ser = "getEpochSyncCommittees" -> getEpochSyncCommittees_schema
          [] ser = "getStateRandao" -> getStateRandao_schema
          [] ser = "getStateValidator" -> getStateValidator_schema
          [] ser = "getStateValidators" -> getStateValidators_schema
          [] ser = "postStateValidators" -> postStateValidators_schema
          [] ser = "getStateValidatorBalances" -> getStateValidatorBalances_schema
          [] ser = "postStateValidatorBalances" -> postStateValidatorBalances_schema

(***************************************************************************)
(* Inputs: the typed arguments a client passes, and the raw wire requests  *)
(* a foreign client may send.                                              *)
(***************************************************************************)
RECURSIVE Repeat(_, _)
Repeat(str, k) == IF k = 0 THEN "" ELSE str \o Repeat(str, k - 1)

\* a state root, 0x and 64 hex digits; a public key, 0x and 96 hex digits
RootHex == "0x" \o Repeat("c0", 32)

PubkeyHex == "0x" \o Repeat("aa", 48)

SeqsUpTo(S, k) == UNION {[1..j -> S] : j \in 0..k}

ValidatorStatus ==
    {"active", "pending_initialized", "pending_queued", "active_ongoing",
     "active_exiting", "active_slashed", "exited_unslashed", "exited_slashed",
     "withdrawal_possible", "withdrawal_done"}

\* StateId = RootHex | Slot | "head" | "genesis" | "finalized" | "justified"
StateIdArgs ==
    {JsStr("head"), JsStr("genesis"), JsStr("finalized"), JsStr("justified"),
     JsNum(Small(12345)), JsStr(RootHex)}

\* ValidatorId = string | number: an index or a 0x public key
ValidatorIdArgs == {JsNum(Small(7)), JsNum(Small(42)), JsStr(PubkeyHex)}

StatusArgs == {JsStr("active_ongoing"), JsStr("exited_slashed")}

EpochArgs == {JsUndefined, JsNum(Small(0)), JsNum(Small(5))}

IdListArgs == {JsArr(l) : l \in SeqsUpTo(ValidatorIdArgs, MaxIds)}

StatusListArgs == {JsArr(l) : l \in SeqsUpTo(StatusArgs, MaxIds)}

\* an optional property: the key missing, or the key with one of the values
OptProp(key, values) == {{}} \cup {{<<key, v>>} : v \in values}

\* ValidatorFilters = {id?: ValidatorId[]; status?: ValidatorStatus[]}, or omitted
ValidatorFiltersArgs ==
    {JsUndefined} \cup
    {JsObj(i \cup st) : i \in OptProp("id", IdListArgs), st \in OptProp("status", StatusListArgs)}

\* CommitteesFilters = {epoch?: Epoch; index?: CommitteeIndex; slot?: Slot}, or omitted
CommitteesFiltersArgs ==
    {JsUndefined} \cup
    {JsObj(e \cup i \cup sl) :
        e \in OptProp("epoch", {JsNum(Small(0)), JsNum(Small(5))}),
        i \in OptProp("index", {JsNum(Small(3))}),
        sl \in OptProp("slot", {JsNum(Small(160))})}

\* the accepted argument tuples of an operation
ArgsOf(o) ==
    CASE o \in {"getStateFinalityCheckpoints", "getStateFork", "getStateRoot"} ->
            {<<sid>> : sid \in StateIdArgs}
      [] o = "getEpochCommittees" ->
            {<<sid, f>> : sid \in StateIdArgs, f \in CommitteesFiltersArgs}
      [] o \in {"getEpochSyncCommittees", "getStateRandao"} ->
            {<<sid, e>> : sid \in StateIdArgs, e \in EpochArgs}
      [] o = "getStateValidator" ->
            {<<sid, v>> : sid \in StateIdArgs, v \in ValidatorIdArgs}
      [] o \in {"getStateValidators", "postStateValidators"} ->
            {<<sid, f>> : sid \in StateIdArgs, f \in ValidatorFiltersArgs}
      [] o \in {"getStateValidatorBalances", "postStateValidatorBalances"} ->
            {<<sid, ids>> : sid \in StateIdArgs, ids \in {JsUndefined} \cup IdListArgs}

\* state_id literals as they may arrive in a URL
RawStateIds ==
    {"head", "justified", "12345", RootHex, "0x" \o Repeat("ZZ", 32), "0xc0", "bogus", ""}

\* id strings as they may arrive in a POST body
RawIds ==
    {"42", "0", PubkeyHex, "0xabc", "01", "-1", "abc",
     "18446744073709551615", "18446744073709551616"}

RawIdLists == {JsArr(l) : l \in SeqsUpTo({JsStr(r) : r \in RawIds}, MaxIds)}

RawBodies(o) ==
    CASE o = "postStateValidators" ->
            {JsObj(i \cup st) :
                i \in OptProp("ids", RawIdLists),
                st \in OptProp("statuses", {JsArr(<<JsStr("active_ongoing")>>)})}
      [] o = "postStateValidatorBalances" -> {JsUndefined} \cup RawIdLists
      [] OTHER -> {JsUndefined}

RawParams(o) ==
    IF o = "getStateValidator"
    THEN {JsObj({<<"state_id", JsStr(sid)>>, <<"validator_id", JsStr(v)>>}) :
            sid \in RawStateIds, v \in {"42", PubkeyHex}}
    ELSE {Params(JsStr(sid)) : sid \in RawStateIds}

\* a wire request as the transport hands it over: params, query and body
RawRequests(o) ==
    {JsObj({<<"params", p>>, <<"query", JsObj({})>>} \cup
           (IF b = JsUndefined THEN {} ELSE {<<"body", b>>})) :
        p \in RawParams(o), b \in RawBodies(o)}

(***************************************************************************)
(* Response types.  A type is described once (uint, bytes, boolean,        *)
(* string, list, container) and its JSON rendering is derived from the     *)
(* description: 64-bit integers as decimal strings, byte vectors as        *)
(* 0x-prefixed lowercase hex, container keys in the container's JSON case. *)
(***************************************************************************)
UintT == [k |-> "uint"]

BytesT(len) == [k |-> "bytes", len |-> len]

BooleanT == [k |-> "boolean"]

StringT == [k |-> "string"]

ListT(elem) == [k |-> "list", elem |-> elem]

Field(name, type) == [name |-> name, type |-> type]

ContainerT(fields, jsonCase) == [k |-> "container", fields |-> fields, jsonCase |-> jsonCase]

\* ArrayOf(elementType): a list of unbounded length
ArrayOf(elem) == ListT(elem)

\* a byte vector value (Uint8Array): the bytes are held in n
JsBytes(bytes) == [t |-> "bytes", n |-> bytes, s |-> "", a |-> <<>>, o |-> {}]

HexChars == "0123456789abcdef"

UpperChars == "ABCDEFGHIJKLMNOPQRSTUVWXYZ"

LowerChars == "abcdefghijklmnopqrstuvwxyz"

IndexIn(alphabet, c) ==
    IF \E i \in 1..Len(alphabet) : SubSeq(alphabet, i, i) = c
    THEN CHOOSE i \in 1..Len(alphabet) : SubSeq(alphabet, i, i) = c
    ELSE 0

RECURSIVE HexOf(_, _)
HexOf(bytes, i) ==
    IF i > Len(bytes)
    THEN ""
    ELSE SubSeq(HexChars, (bytes[i] \div 16) + 1, (bytes[i] \div 16) + 1)
         \o SubSeq(HexChars, (bytes[i] % 16) + 1, (bytes[i] % 16) + 1)
         \o HexOf(bytes, i + 1)

toHex(bytes) == "0x" \o HexOf(bytes, 1)

\* the bytes of "0x" followed by pairs of hex digits
fromHex(str) ==
    [i \in 1..((Len(str) - 2) \div 2) |->
        (IndexIn(HexChars, SubSeq(str, 2 * i + 1, 2 * i + 1)) - 1) * 16
        + (IndexIn(HexChars, SubSeq(str, 2 * i + 2, 2 * i + 2)) - 1)]

\* camelCase to snake_case
RECURSIVE SnakeFrom(_, _)
SnakeFrom(name, i) ==
    IF i > Len(name)
    THEN ""
    ELSE LET c == SubSeq(name, i, i)
             u == IndexIn(UpperChars, c)
         IN  (IF u = 0 THEN c ELSE "_" \o SubSeq(LowerChars, u, u)) \o SnakeFrom(name, i + 1)

\* the JSON key of a container field
jsonKey(name, jsonCase) == IF jsonCase = "eth2" THEN SnakeFrom(name, 1) ELSE name

RECURSIVE toJson(_, _)
toJson(type, v) ==
    CASE type.k = "uint" -> JsStr(toDecimalString(v.n))
      [] type.k = "bytes" -> JsStr(toHex(v.n))
      [] type.k = "list" -> JsArr([i \in 1..Len(v.a) |-> toJson(type.elem, v.a[i])])
      [] type.k = "container" ->
            JsObj({<<jsonKey(type.fields[i].name, type.jsonCase),
                     toJson(type.fields[i].type, Get(v, type.fields[i].name))>> :
                        i \in 1..Len(type.fields)})
      [] OTHER -> v

RECURSIVE fromJson(_, _)
fromJson(type, j) ==
    CASE type.k = "uint" -> JsNum(fromDecimalString(j.s).val)
      [] type.k = "bytes" -> JsBytes(fromHex(j.s))
      [] type.k = "list" -> JsArr([i \in 1..Len(j.a) |-> fromJson(type.elem, j.a[i])])
      [] type.k = "container" ->
            JsObj({<<type.fields[i].name,
                     fromJson(type.fields[i].type,
                              Get(j, jsonKey(type.fields[i].name, type.jsonCase)))>> :
                        i \in 1..Len(type.fields)})
      [] OTHER -> j

\* the types of @lodestar/types the response schemas are built from
Root == BytesT(32)

Checkpoint == ContainerT(<<Field("epoch", UintT), Field("root", Root)>>, "eth2")

Fork ==
    ContainerT(<<Field("previousVersion", BytesT(4)), Field("currentVersion", BytesT(4)),
                 Field("epoch", UintT)>>, "eth2")

Validator ==
    ContainerT(<<Field("pubkey", BytesT(48)), Field("withdrawalCredentials", BytesT(32)),
                 Field("effectiveBalance", UintT), Field("slashed", BooleanT),
                 Field("activationEligibilityEpoch", UintT), Field("activationEpoch", UintT),
                 Field("exitEpoch", UintT), Field("withdrawableEpoch", UintT)>>, "eth2")

CommitteeIndices == ListT(UintT)

\* the schemas getReturnTypes builds
RootContainer == ContainerT(<<Field("root", Root)>>, "none")

RandaoContainer == ContainerT(<<Field("randao", Root)>>, "none")

FinalityCheckpoints ==
    ContainerT(<<Field("previousJustified", Checkpoint), Field("currentJustified", Checkpoint),
                 Field("finalized", Checkpoint)>>, "eth2")

ValidatorResponse ==
    ContainerT(<<Field("index", UintT), Field("balance", UintT), Field("status", StringT),
                 Field("validator", Validator)>>, "eth2")

ValidatorBalance ==
    ContainerT(<<Field("index", UintT), Field("balance", UintT)>>, "eth2")

EpochCommitteeResponse ==
    ContainerT(<<Field("index", UintT), Field("slot", UintT),
                 Field("validators", CommitteeIndices)>>, "eth2")

EpochSyncCommitteesResponse ==
    ContainerT(<<Field("validators", ArrayOf(UintT)),
                 Field("validatorAggregates", ArrayOf(ArrayOf(UintT)))>>, "eth2")

(***************************************************************************)
(* The response envelope {data, executionOptimistic, finalized}.  A        *)
(* response codec is a payload type under a stack of wrappers, outermost   *)
(* first.                                                                  *)
(***************************************************************************)
ContainerDataExecutionOptimistic(dataType) ==
    [wrappers |-> <<"ContainerDataExecutionOptimistic">>, data |-> dataType]

WithFinalized(type) ==
    [wrappers |-> <<"WithFinalized">> \o type.wrappers, data |-> type.data]

\* a metadata flag read from JSON: false when the key is absent
FlagOrFalse(j, key) == IF HasKey(j, key) THEN Get(j, key) ELSE JsBool(FALSE)

Wraps(codec, wrapper) == \E i \in 1..Len(codec.wrappers) : codec.wrappers[i] = wrapper

\* toJson of a wrapped codec: each wrapper adds its own key to the object
codecToJson(codec, v) ==
    JsObj((IF Wraps(codec, "ContainerDataExecutionOptimistic")
           THEN {<<"data", toJson(codec.data, Get(v, "data"))>>,
                 <<"execution_optimistic", Get(v, "executionOptimistic")>>}
           ELSE toJson(codec.data, v).o)
          \cup
          (IF Wraps(codec, "WithFinalized")
           THEN {<<"finalized", Get(v, "finalized")>>}
           ELSE {}))

\* fromJson of a wrapped codec: each wrapper reads its own key back
codecFromJson(codec, j) ==
    JsObj((IF Wraps(codec, "ContainerDataExecutionOptimistic")
           THEN {<<"data", fromJson(codec.data, Get(j, "data"))>>,
                 <<"executionOptimistic", FlagOrFalse(j, "execution_optimistic")>>}
           ELSE fromJson(codec.data, j).o)
          \cup
          (IF Wraps(codec, "WithFinalized")
           THEN {<<"finalized", FlagOrFalse(j, "finalized")>>}
           ELSE {}))

\* getReturnTypes without the two POST operations
getReturnTypes_withoutPost ==
    [getStateRoot |-> WithFinalized(ContainerDataExecutionOptimistic(RootContainer)),
     getStateFork |-> WithFinalized(ContainerDataExecutionOptimistic(Fork)),
     getStateRandao |-> WithFinalized(ContainerDataExecutionOptimistic(RandaoContainer)),
     getStateFinalityCheckpoints |->
        WithFinalized(ContainerDataExecutionOptimistic(FinalityCheckpoints)),
     getStateValidators |->
        WithFinalized(ContainerDataExecutionOptimistic(ArrayOf(ValidatorResponse))),
     getStateValidator |-> WithFinalized(ContainerDataExecutionOptimistic(ValidatorResponse)),
     getStateValidatorBalances |->
        WithFinalized(ContainerDataExecutionOptimistic(ArrayOf(ValidatorBalance))),
     getEpochCommittees |->
        WithFinalized(ContainerDataExecutionOptimistic(ArrayOf(EpochCommitteeResponse))),
     getEpochSyncCommittees |->
        WithFinalized(ContainerDataExecutionOptimistic(EpochSyncCommitteesResponse))]

\* getReturnTypes with the two POST operations left without WithFinalized
getReturnTypes_postNotFinalized ==
    [getStateRoot |-> WithFinalized(ContainerDataExecutionOptimistic(RootContainer)),
     getStateFork |-> WithFinalized(ContainerDataExecutionOptimistic(Fork)),
     getStateRandao |-> WithFinalized(ContainerDataExecutionOptimistic(RandaoContainer)),
     getStateFinalityCheckpoints |->
        WithFinalized(ContainerDataExecutionOptimistic(FinalityCheckpoints)),
     getStateValidators |->
        WithFinalized(ContainerDataExecutionOptimistic(ArrayOf(ValidatorResponse))),
     postStateValidators |-> ContainerDataExecutionOptimistic(ArrayOf(ValidatorResponse)),
     getStateValidator |-> WithFinalized(ContainerDataExecutionOptimistic(ValidatorResponse)),
     getStateValidatorBalances |->
        WithFinalized(ContainerDataExecutionOptimistic(ArrayOf(ValidatorBalance))),
     postStateValidatorBalances |-> ContainerDataExecutionOptimistic(ArrayOf(ValidatorBalance)),
     getEpochCommittees |->
        WithFinalized(ContainerDataExecutionOptimistic(ArrayOf(EpochCommitteeResponse))),
     getEpochSyncCommittees |->
        WithFinalized(ContainerDataExecutionOptimistic(EpochSyncCommitteesResponse))]

getReturnTypes ==
    [getStateRoot |-> WithFinalized(ContainerDataExecutionOptimistic(RootContainer)),
     getStateFork |-> WithFinalized(ContainerDataExecutionOptimistic(Fork)),
     getStateRandao |-> WithFinalized(ContainerDataExecutionOptimistic(RandaoContainer)),
     getStateFinalityCheckpoints |->
        WithFinalized(ContainerDataExecutionOptimistic(FinalityCheckpoints)),
     getStateValidators |->
        WithFinalized(ContainerDataExecutionOptimistic(ArrayOf(ValidatorResponse))),
     postStateValidators |->
        WithFinalized(ContainerDataExecutionOptimistic(ArrayOf(ValidatorResponse))),
     getStateValidator |-> WithFinalized(ContainerDataExecutionOptimistic(ValidatorResponse)),
     getStateValidatorBalances |->
        WithFinalized(ContainerDataExecutionOptimistic(ArrayOf(ValidatorBalance))),
     postStateValidatorBalances |->
        WithFinalized(ContainerDataExecutionOptimistic(ArrayOf(ValidatorBalance))),
     getEpochCommittees |->
        WithFinalized(ContainerDataExecutionOptimistic(ArrayOf(EpochCommitteeResponse))),
     getEpochSyncCommittees |->
        WithFinalized(ContainerDataExecutionOptimistic(EpochSyncCommitteesResponse))]

(***************************************************************************)
(* Results the (external) handler may return: one conformant value of the  *)
(* operation's payload type per seed.                                      *)
(***************************************************************************)
UintSamples == <<Small(0), Small(7), U64(0, 7, 29529, 16384), MaxU64, Small(42)>>

StatusSamples == <<"active_ongoing", "pending_queued", "exited_slashed", "withdrawal_done">>

RECURSIVE Sample(_, _)
Sample(type, seed) ==
    CASE type.k = "uint" -> JsNum(UintSamples[(seed % Len(UintSamples)) + 1])
      [] type.k = "bytes" -> JsBytes([i \in 1..type.len |-> (seed * 37 + i * 11) % 256])
      [] type.k = "boolean" -> JsBool(seed % 2 = 0)
      [] type.k = "string" -> JsStr(StatusSamples[(seed % Len(StatusSamples)) + 1])
      [] type.k = "list" ->
            JsArr([i \in 1..(seed % (MaxList + 1)) |-> Sample(type.elem, seed + i)])
      [] type.k = "container" ->
            JsObj({<<type.fields[i].name, Sample(type.fields[i].type, seed + i)>> :
                      i \in 1..Len(type.fields)})

\* the balances list [{index: 7, balance: 32000000000}]
ScenarioBalances ==
    JsArr(<<JsObj({<<"index", JsNum(Small(7))>>,
                   <<"balance", JsNum(U64(0, 7, 29529, 16384))>>})>>)

ResultsOf(o) ==
    {Sample(getReturnTypes[o].data, seed) : seed \in 0..MaxSeed}
    \cup (IF o \in {"getStateValidatorBalances", "postStateValidatorBalances"}
          THEN {ScenarioBalances}
          ELSE {})

Envelope(data, executionOptimistic, finalized) ==
    JsObj({<<"data", data>>,
           <<"executionOptimistic", JsBool(executionOptimistic)>>,
           <<"finalized", JsBool(finalized)>>})

MetaKeys == {"execution_optimistic", "finalized"}

(***************************************************************************)
(* State.                                                                  *)
(***************************************************************************)
VARIABLES
    pc,        \* "idle", "sent", "parsed", "handling", "responded", "decoded"
    op,        \* the operation of the cycle in flight, "none" when idle
    origin,    \* "client": built by writeReq; "raw": sent by a foreign client
    args,      \* the argument tuple the client passed (<<>> for a raw request)
    route,     \* the routesData entry the request travels on
    req,       \* the wire request
    schemaOk,  \* whether the wire request conforms to the operation's schema
    parsed,    \* what parseReq made of the wire request
    result,    \* the envelope value the handler returned
    omitted,   \* the metadata keys the responding node left out of the JSON
    resJson,   \* the JSON response on the wire
    decoded    \* the envelope value the client decoded

reqVars == <<origin, args, req, schemaOk, parsed>>

resVars == <<result, omitted, resJson, decoded>>

vars == <<pc, op, route, reqVars, resVars>>

NoRoute == Route("", "")

NoRequest ==
    /\ origin = "none"
    /\ args = <<>>
    /\ req = JsUndefined
    /\ schemaOk = FALSE
    /\ parsed = Thrown

NoResponse ==
    /\ result = JsUndefined
    /\ omitted = {}
    /\ resJson = JsUndefined
    /\ decoded = JsUndefined

Init ==
    /\ pc = "idle"
    /\ op = "none"
    /\ route = NoRoute
    /\ NoRequest
    /\ NoResponse

\* the client calls operation o: writeReq puts the arguments on the wire
Call(o) ==
    /\ \E a \in ArgsOf(o) :
          /\ args' = a
          /\ req' = writeReq(o, a)
    /\ op' = o
    /\ origin' = "client"
    /\ route' = routesData[o]
    /\ pc' = "sent"
    /\ UNCHANGED <<schemaOk, parsed, resVars>>

getEpochCommittees == pc = "idle" /\ Call("getEpochCommittees")

getEpochSyncCommittees == pc = "idle" /\ Call("getEpochSyncCommittees")

getStateFinalityCheckpoints == pc = "idle" /\ Call("getStateFinalityCheckpoints")

getStateFork == pc = "idle" /\ Call("getStateFork")

getStateRoot == pc = "idle" /\ Call("getStateRoot")

getStateRandao == pc = "idle" /\ Call("getStateRandao")

getStateValidator == pc = "idle" /\ Call("getStateValidator")

getStateValidators == pc = "idle" /\ Call("getStateValidators")

postStateValidators == pc = "idle" /\ Call("postStateValidators")

getStateValidatorBalances == pc = "idle" /\ Call("getStateValidatorBalances")

postStateValidatorBalances == pc = "idle" /\ Call("postStateValidatorBalances")

\* a foreign client sends a wire request of its own making
RawRequest ==
    /\ pc = "idle"
    /\ \E o \in Operations :
          /\ op' = o
          /\ route' = routesData[o]
          /\ \E r \in RawRequests(o) : req' = r
    /\ origin' = "raw"
    /\ args' = <<>>
    /\ pc' = "sent"
    /\ UNCHANGED <<schemaOk, parsed, resVars>>

\* the server side: the transport checks the schema, parseReq rebuilds the
\* arguments (parseReq itself checks nothing, so its result is recorded
\* whatever the schema said)
Receive ==
    /\ pc = "sent"
    /\ schemaOk' = Conforms(schema(op), req)
    /\ parsed' = parseReq(op, req)
    /\ pc' = "parsed"
    /\ UNCHANGED <<op, origin, args, route, req, resVars>>

\* the request is consumed
DropRequest ==
    /\ origin' = "none"
    /\ args' = <<>>
    /\ req' = JsUndefined
    /\ schemaOk' = FALSE
    /\ parsed' = Thrown

\* a request the schema refused or parseReq threw on ends the cycle (400)
Reject ==
    /\ pc = "parsed"
    /\ ~schemaOk \/ parsed.threw
    /\ pc' = "idle"
    /\ op' = "none"
    /\ route' = NoRoute
    /\ DropRequest
    /\ UNCHANGED resVars

\* the parsed arguments are handed to the (external) handler
Handle ==
    /\ pc = "parsed"
    /\ schemaOk /\ ~parsed.threw
    /\ pc' = "handling"
    /\ DropRequest
    /\ UNCHANGED <<op, route, resVars>>

\* the handler returns a result; the response codec renders the envelope
Respond ==
    /\ pc = "handling"
    /\ \E data \in ResultsOf(op), eo \in BOOLEAN, fin \in BOOLEAN :
          /\ result' = Envelope(data, eo, fin)
          /\ resJson' = codecToJson(getReturnTypes[op], Envelope(data, eo, fin))
    /\ omitted' = {}
    /\ pc' = "responded"
    /\ UNCHANGED <<op, route, reqVars, decoded>>

\* a node that leaves metadata keys out of its JSON answers instead
RespondWithoutMeta ==
    /\ pc = "handling"
    /\ \E data \in ResultsOf(op), eo \in BOOLEAN, fin \in BOOLEAN,
          omit \in (SUBSET MetaKeys) \ {{}} :
          /\ result' = Envelope(data, eo, fin)
          /\ omitted' = omit
          /\ resJson' =
                JsObj({p \in codecToJson(getReturnTypes[op], Envelope(data, eo, fin)).o :
                          p[1] \notin omit})
    /\ pc' = "responded"
    /\ UNCHANGED <<op, route, reqVars, decoded>>

\* the client reads the JSON response back
Decode ==
    /\ pc = "responded"
    /\ decoded' = codecFromJson(getReturnTypes[op], resJson)
    /\ pc' = "decoded"
    /\ UNCHANGED <<op, route, reqVars, result, omitted, resJson>>

\* the cycle ends; every value of it is dropped
Finish ==
    /\ pc = "decoded"
    /\ pc' = "idle"
    /\ op' = "none"
    /\ route' = NoRoute
    /\ result' = JsUndefined
    /\ omitted' = {}
    /\ resJson' = JsUndefined
    /\ decoded' = JsUndefined
    /\ UNCHANGED reqVars

Next ==
    \/ getEpochCommittees
    \/ getEpochSyncCommittees
    \/ getStateFinalityCheckpoints
    \/ getStateFork
    \/ getStateRoot
    \/ getStateRandao
    \/ getStateValidator
    \/ getStateValidators
    \/ postStateValidators
    \/ getStateValidatorBalances
    \/ postStateValidatorBalances
    \/ RawRequest
    \/ Receive
    \/ Reject
    \/ Handle
    \/ Respond
    \/ RespondWithoutMeta
    \/ Decode
    \/ Finish

Spec == Init /\ [][Next]_vars

(***************************************************************************)
(* Helpers of the properties.                                              *)
(***************************************************************************)
\* two parseReq outcomes hand the handler the same arguments; a key holding
\* undefined counts as a missing key
SameArgs(p, q) ==
    /\ p.threw = q.threw
    /\ Len(p.args) = Len(q.args)
    /\ \A i \in 1..Len(p.args) : DropUndefined(p.args[i]) = DropUndefined(q.args[i])

Keys(v) == {p[1] : p \in v.o}

AllDigits(str) == \A i \in 1..Len(str) : IsDigit(SubSeq(str, i, i))

IsHexDigit(c) == IndexIn(HexChars, c) # 0 \/ IndexIn("ABCDEF", c) # 0

\* the StateId grammar: an alias, a decimal slot, or 0x and 64 hex digits
IsStateIdLiteral(str) ==
    \/ str \in {"head", "genesis", "finalized", "justified"}
    \/ Len(str) > 0 /\ AllDigits(str)
    \/ /\ Len(str) = 66
       /\ startsWith(str, "0x")
       /\ \A i \in 3..66 : IsHexDigit(SubSeq(str, i, i))

\* s <= t for two digit strings of the same length
RECURSIVE DigitsLeq(_, _, _)
DigitsLeq(str, t, i) ==
    IF i > Len(str)
    THEN TRUE
    ELSE LET a == DigitVal(SubSeq(str, i, i))
             b == DigitVal(SubSeq(t, i, i))
         IN  a < b \/ (a = b /\ DigitsLeq(str, t, i + 1))

\* a canonical decimal string of a value in [0, 2^64 - 1], told from its text
IsCanonicalU64String(str) ==
    /\ Len(str) > 0
    /\ AllDigits(str)
    /\ Len(str) = 1 \/ SubSeq(str, 1, 1) # "0"
    /\ Len(str) < 20 \/ (Len(str) = 20 /\ DigitsLeq(str, "18446744073709551615", 1))

PostOps == {"postStateValidators", "postStateValidatorBalances"}

\* the id list of a POST request as it is on the wire, and as parseReq returned it
WireIds == IF op = "postStateValidators" THEN Get(Get(req, "body"), "ids") ELSE Get(req, "body")

ParsedIds == IF op = "postStateValidators" THEN Get(parsed.args[2], "id") ELSE parsed.args[2]

WireStateId == Get(Get(req, "params"), "state_id")

\* the serializers getReqSerializers builds, each with writeReq, parseReq and schema
SerializerNames ==
    {"stateIdOnlyReq", "getEpochCommittees", "getEpochSyncCommittees", "getStateRandao",
     "getStateValidator", "getStateValidators", "postStateValidators",
     "getStateValidatorBalances", "postStateValidatorBalances"}

\* numbers and strings the decimal codec is tried on
CodecNumbers ==
    {UintSamples[i] : i \in 1..Len(UintSamples)}
    \cup {Small(1), Small(9), Small(10), Small(99), Small(100), Small(65535), Small(65536),
          U64(0, 0, 65535, 65535), U64(0, 1, 0, 0), U64(0, 32, 0, 0), U64(32768, 0, 0, 0),
          U64(65535, 65535, 65535, 65534)}

CodecStrings ==
    RawIds \cup
    {"", "00", "1", "9", "10", "007", "+1", "1.0", "1e3", " 1", "1 ", "0x10", "12a",
     "9999999999999999999", "18446744073709551614", "18446744073709551620",
     "28446744073709551615", "99999999999999999999", "184467440737095516150",
     "018446744073709551615"}

InverseOnNumbers ==
    \A n \in CodecNumbers :
        /\ IsU64(n)
        /\ IsCanonicalU64String(toDecimalString(n))
        /\ fromDecimalString(toDecimalString(n)) = [ok |-> TRUE, val |-> n]

AcceptsOnlyCanonical ==
    /\ \A str \in CodecStrings :
          /\ fromDecimalString(str).ok <=> IsCanonicalU64String(str)
          /\ fromDecimalString(str).ok => toDecimalString(fromDecimalString(str).val) = str
    /\ \A str \in {"01", "-1", "abc", "18446744073709551616"} : ~fromDecimalString(str).ok

(***************************************************************************)
(* C1.  Request round trip: for every operation and every accepted         *)
(* argument tuple, parseReq(writeReq(args)) hands back args (a key holding *)
(* undefined being read as a missing key, the reading that favours the     *)
(* law).                                                                   *)
(***************************************************************************)
RequestRoundTrip ==
    (pc = "parsed" /\ origin = "client") => SameArgs(parsed, Returned(args))

(***************************************************************************)
(* C2.  GET/POST equivalence: the POST variant of a filtered query parses  *)
(* to the same arguments as the GET variant called with the same           *)
(* arguments.                                                              *)
(***************************************************************************)
GetPostEquivalence ==
    (pc = "parsed" /\ origin = "client") =>
        /\ op = "postStateValidators" =>
              SameArgs(parsed, parseReq("getStateValidators",
                                        writeReq("getStateValidators", args)))
        /\ op = "postStateValidatorBalances" =>
              SameArgs(parsed, parseReq("getStateValidatorBalances",
                                        writeReq("getStateValidatorBalances", args)))

(***************************************************************************)
(* C3.  postStateValidators called with a filter object: the body is       *)
(* {ids, statuses}; ids has the length and order of id, a numeric id as    *)
(* its decimal string and a string id verbatim; statuses is status; and    *)
(* parseReq gives the filter object back (exactly when it has both keys).  *)
(***************************************************************************)
PostValidatorsBody ==
    (pc \in {"sent", "parsed"} /\ origin = "client" /\ op = "postStateValidators"
        /\ args[2] # JsUndefined) =>
        LET id == Get(args[2], "id")
            body == Get(req, "body")
            ids == Get(body, "ids")
        IN  /\ body.t = "object"
            /\ Keys(body) = {"ids", "statuses"}
            /\ Get(body, "statuses") = Get(args[2], "status")
            /\ id = JsUndefined => ids = JsUndefined
            /\ id # JsUndefined =>
                  /\ ids.t = "array"
                  /\ Len(ids.a) = Len(id.a)
                  /\ \A i \in 1..Len(id.a) :
                        /\ ids.a[i].t = "string"
                        /\ id.a[i].t = "string" => ids.a[i] = id.a[i]
                        /\ id.a[i].t = "number" =>
                              /\ IsCanonicalU64String(ids.a[i].s)
                              /\ fromDecimalString(ids.a[i].s).val = id.a[i].n
            /\ pc = "parsed" =>
                  /\ ~parsed.threw
                  /\ DropUndefined(parsed.args[2]) = args[2]
                  /\ Keys(args[2]) = {"id", "status"} => parsed.args[2] = args[2]

\* the filter {id: [42, 0xaa..], status: [active_ongoing]} went out as
\* {ids: ["42", "0xaa.."], statuses: [active_ongoing]} and came back
PostValidatorsBodyWitness ==
    /\ pc = "parsed"
    /\ origin = "client"
    /\ op = "postStateValidators"
    /\ args[2] = JsObj({<<"id", JsArr(<<JsNum(Small(42)), JsStr(PubkeyHex)>>)>>,
                        <<"status", JsArr(<<JsStr("active_ongoing")>>)>>})
    /\ Get(req, "body") = JsObj({<<"ids", JsArr(<<JsStr("42"), JsStr(PubkeyHex)>>)>>,
                                 <<"statuses", JsArr(<<JsStr("active_ongoing")>>)>>})
    /\ parsed.args[2] = args[2]

(***************************************************************************)
(* C4.  The registry is total: routesData, the request serializers and the *)
(* return types have the same keys, the 11 operations; every operation     *)
(* holds a route, a serializer with writeReq, parseReq and schema, and a   *)
(* response codec.                                                         *)
(***************************************************************************)
RegistryTotal ==
    /\ Cardinality(Operations) = 11
    /\ DOMAIN routesData = Operations
    /\ DOMAIN getReqSerializers = Operations
    /\ DOMAIN getReturnTypes = Operations
    /\ \A o \in Operations : getReqSerializers[o] \in SerializerNames
    /\ op # "none" =>
          /\ op \in Operations
          /\ route = routesData[op]

\* one cycle went through the three tables: route, request codec, response codec
RegistryTotalWitness ==
    /\ pc = "decoded"
    /\ op = "postStateValidatorBalances"
    /\ route = routesData[op]
    /\ decoded # JsUndefined

(***************************************************************************)
(* C5.  Routes are unique: no two operations share a method and a path     *)
(* shape; every method is GET or POST; the GET and POST variants of        *)
(* validators and validator_balances share the URL, not the method.  (The  *)
(* table never changes: its templates are compared where a cycle starts.)  *)
(***************************************************************************)
RoutesUnique ==
    /\ pc = "idle" =>
          \A a, b \in DOMAIN routesData :
              (a # b /\ routesData[a].method = routesData[b].method) =>
                  ~SegmentsCollide(Segments(routesData[a].url), Segments(routesData[b].url))
    /\ \A a \in DOMAIN routesData : routesData[a].method \in {"GET", "POST"}
    /\ routesData["getStateValidators"].url = routesData["postStateValidators"].url
    /\ routesData["getStateValidators"].method # routesData["postStateValidators"].method
    /\ routesData["getStateValidatorBalances"].url = routesData["postStateValidatorBalances"].url
    /\ routesData["getStateValidatorBalances"].method
          # routesData["postStateValidatorBalances"].method
    /\ pc # "idle" =>
          \A o \in DOMAIN routesData : routesData[o] = route => o = op

\* a POST request travels on the URL its GET sibling also has
RoutesUniqueWitness ==
    /\ pc = "sent"
    /\ op = "postStateValidators"
    /\ route.method = "POST"
    /\ route.url = routesData["getStateValidators"].url

(***************************************************************************)
(* C6.  As claimed: a state_id literal outside the StateId grammar is      *)
(* rejected by schema validation or by parseReq, for every operation.      *)
(***************************************************************************)
StateIdRejected ==
    (pc = "parsed" /\ WireStateId.t = "string" /\ ~IsStateIdLiteral(WireStateId.s)) =>
        (~schemaOk \/ parsed.threw)

(***************************************************************************)
(* C6, amended.  The codec layer does not classify state_id: the schema    *)
(* accepts any string for it and parseReq of every operation returns it    *)
(* verbatim as the first argument; parseReq throws only on a malformed     *)
(* number in a POST id list.                                               *)
(***************************************************************************)
StateIdPassedVerbatim ==
    (pc = "parsed" /\ WireStateId.t = "string") =>
        /\ \E f \in schema(op).params : f = <<"state_id", "StringRequired">>
        /\ PartConforms({f \in schema(op).params : f[1] = "state_id"}, Get(req, "params"))
        /\ parsed.threw =>
              /\ op \in PostOps
              /\ \E i \in 1..Len(WireIds.a) :
                    ~startsWith(WireIds.a[i].s, "0x") /\ ~IsCanonicalU64String(WireIds.a[i].s)
        /\ ~parsed.threw => parsed.args[1] = WireStateId

\* "0xZZ..ZZ" passed the schema of getStateRoot and parseReq returned it
StateIdPassedVerbatimWitness ==
    /\ pc = "parsed"
    /\ op = "getStateRoot"
    /\ WireStateId = JsStr("0x" \o Repeat("ZZ", 32))
    /\ ~IsStateIdLiteral(WireStateId.s)
    /\ schemaOk
    /\ parsed = Returned(<<JsStr("0x" \o Repeat("ZZ", 32))>>)

(***************************************************************************)
(* C7.  ValidatorId disambiguation in parseReq of the two POST operations: *)
(* an element with the 0x prefix comes back verbatim as a string, any      *)
(* other element comes back as the number it denotes, and parseReq throws  *)
(* exactly when an element without the prefix denotes no number.           *)
(***************************************************************************)
ValidatorIdDisambiguation ==
    (pc = "parsed" /\ op \in PostOps /\ WireIds.t = "array") =>
        LET w == WireIds.a
            isKey(i) == startsWith(w[i].s, "0x")
        IN  /\ parsed.threw <=>
                  \E i \in 1..Len(w) : ~isKey(i) /\ ~IsCanonicalU64String(w[i].s)
            /\ ~parsed.threw =>
                  /\ ParsedIds.t = "array"
                  /\ Len(ParsedIds.a) = Len(w)
                  /\ \A i \in 1..Len(w) :
                        /\ isKey(i) => ParsedIds.a[i] = w[i]
                        /\ ~isKey(i) =>
                              /\ ParsedIds.a[i].t = "number"
                              /\ IsU64(ParsedIds.a[i].n)
                              /\ toDecimalString(ParsedIds.a[i].n) = w[i].s
                        /\ w[i].s = "42" => ParsedIds.a[i] = JsNum(Small(42))

\* the body ["42", "0xaa.."] came back as [42, "0xaa.."]
ValidatorIdDisambiguationWitness ==
    /\ pc = "parsed"
    /\ origin = "raw"
    /\ op = "postStateValidatorBalances"
    /\ WireIds = JsArr(<<JsStr("42"), JsStr(PubkeyHex)>>)
    /\ parsed = Returned(<<WireStateId, JsArr(<<JsNum(Small(42)), JsStr(PubkeyHex)>>)>>)

(***************************************************************************)
(* C8.  The decimal codec is an exact inverse pair on [0, 2^64 - 1], and   *)
(* fromDecimalString accepts exactly the canonical decimal strings of that *)
(* range: "01", "-1", "abc" and 2^64 are MalformedNumber; so the POST      *)
(* codecs give back every index they wrote.                                *)
(***************************************************************************)
DecimalCodecInverse ==
    /\ InverseOnNumbers
    /\ AcceptsOnlyCanonical
    /\ (pc = "parsed" /\ op \in PostOps /\ origin = "client" /\ WireIds.t = "array") =>
          /\ ~parsed.threw
          /\ \A i \in 1..Len(WireIds.a) :
                ParsedIds.a[i].t = "number" =>
                    /\ WireIds.a[i] = JsStr(toU64Str(ParsedIds.a[i].n))
                    /\ fromU64Str(WireIds.a[i].s) = [ok |-> TRUE, val |-> ParsedIds.a[i].n]
    /\ (pc = "parsed" /\ op \in PostOps /\ origin = "raw" /\ WireIds.t = "array") =>
          \A i \in 1..Len(WireIds.a) :
              (WireIds.a[i].s \in {"01", "-1", "abc", "18446744073709551616"}) => parsed.threw

\* the largest u64 crossed the wire as text and came back as the number
DecimalCodecInverseWitness ==
    /\ pc = "parsed"
    /\ origin = "raw"
    /\ op = "postStateValidatorBalances"
    /\ WireIds = JsArr(<<JsStr("18446744073709551615")>>)
    /\ parsed.args[2] = JsArr(<<JsNum(MaxU64)>>)
    /\ toU64Str(MaxU64) = "18446744073709551615"

(***************************************************************************)
(* C9.  Uniform envelope: every response codec is its payload type under   *)
(* WithFinalized over ContainerDataExecutionOptimistic; the JSON carries   *)
(* data and the two flags; decoding gives the payload back, and a flag     *)
(* absent from the JSON decodes to false.                                  *)
(***************************************************************************)
UniformEnvelope ==
    /\ \A o \in DOMAIN getReturnTypes :
          getReturnTypes[o].wrappers = <<"WithFinalized", "ContainerDataExecutionOptimistic">>
    /\ pc \in {"responded", "decoded"} =>
          Keys(resJson) = {"data", "execution_optimistic", "finalized"} \ omitted
    /\ pc = "decoded" =>
          /\ Keys(decoded) = {"data", "executionOptimistic", "finalized"}
          /\ Get(decoded, "data") = Get(result, "data")
          /\ Get(decoded, "executionOptimistic") =
                IF "execution_optimistic" \in omitted
                THEN JsBool(FALSE)
                ELSE Get(result, "executionOptimistic")
          /\ Get(decoded, "finalized") =
                IF "finalized" \in omitted THEN JsBool(FALSE) ELSE Get(result, "finalized")

\* a response without either flag decoded to the payload with both flags false
UniformEnvelopeWitness ==
    /\ pc = "decoded"
    /\ op = "getStateValidatorBalances"
    /\ omitted = MetaKeys
    /\ Get(result, "data") = ScenarioBalances
    /\ Get(decoded, "data") = ScenarioBalances
    /\ Get(decoded, "executionOptimistic") = JsBool(FALSE)
    /\ Get(decoded, "finalized") = JsBool(FALSE)

(***************************************************************************)
(* C11.  Schema conformance of written requests: the wire request writeReq *)
(* produces for an accepted argument tuple satisfies the operation's own   *)
(* schema; params.state_id and params.validator_id are strings even when   *)
(* the argument is a numeric slot or a numeric index.                      *)
(***************************************************************************)
WrittenRequestConforms ==
    (pc = "parsed" /\ origin = "client") =>
        /\ schemaOk
        /\ WireStateId.t = "string"
        /\ op = "getStateValidator" =>
              Get(Get(req, "params"), "validator_id").t = "string"

\* the id list among the arguments of a POST call, absent when the filter
\* object is omitted (filters?.id)
ArgIds == IF op = "postStateValidators" THEN Get(args[2], "id") ELSE args[2]

EmptyList == JsArr(<<>>)

(***************************************************************************)
(* C12.  Absent versus empty id list: for both POST operations writeReq    *)
(* then parseReq hands back an absent id list exactly when the id list     *)
(* was absent, and an empty one exactly when it was empty.                 *)
(***************************************************************************)
AbsentEmptyPreserved ==
    (pc = "parsed" /\ origin = "client" /\ op \in PostOps /\ ~parsed.threw) =>
        /\ ArgIds = JsUndefined <=> ParsedIds = JsUndefined
        /\ ArgIds = EmptyList <=> ParsedIds = EmptyList

====
